---- MODULE Spec2Model ----
(***************************************************************************)
(* A model of python/tensorflowjs/cli.py, the interactive command line     *)
(* tool for tensorflow.js model conversion.                                *)
(*                                                                         *)
(* Python strings are sequences of one-character strings, so that lower(), *)
(* endswith(), the `in` substring test, the URL regular expression, the    *)
(* sort of the dictionary keys and the '--%s=%s' formatting are computed   *)
(* as the code computes them.  Python values of differing types (None,     *)
(* bool, int, str) are tagged records.                                     *)
(***************************************************************************)
EXTENDS Integers, Sequences, FiniteSets, TLC

VARIABLES
  fs,        \* the filesystem the process runs against: path -> node
  argv,      \* sys.argv
  pc,        \* position of the process in __main__ / main
  exit_status, \* [code, raised]: the exit code (None while running) and the
             \* uncaught exception that ended the process, if any
  dry_run,   \* main's parameter (a Python value; None before it is assigned)
  answers,   \* the dict input_params / options / params that prompt fills in
  detected,  \* detected_input_format (a Python value)
  typed,     \* what the user entered or selected at each question, by name
  asked,     \* names of the questions presented to the user, in order
  rejected,  \* answers the current question's validator has rejected so far
  arguments, \* generate_arguments(params) once computed, empty before
  stdout,    \* what the process wrote, line by line
  converter_calls, \* argument lists convert() was invoked with
  call,      \* function harness: the function applied and its input
  ret        \* function harness: what it returned

vars == <<fs, argv, pc, exit_status, dry_run, answers, typed, detected, asked,
          rejected, arguments, stdout, converter_calls, call, ret>>

-----------------------------------------------------------------------------
(* Characters and strings *)

\* the printable ASCII characters, code points 32..126, in order (the double
\* quote, the backslash and the backtick are written by name)
Ascii == <<" ","!","<dquote>","#","$","%","&","'","(",")","*","+",",","-",".","/","0","1","2","3","4","5","6","7","8","9",":",";","<","=",">","?","@","A","B","C","D","E","F","G","H","I","J","K","L","M","N","O","P","Q","R","S","T","U","V","W","X","Y","Z","[","<backslash>","]","^","_","<backtick>","a","b","c","d","e","f","g","h","i","j","k","l","m","n","o","p","q","r","s","t","u","v","w","x","y","z","{","|","}","~">>

Ord(c) == 31 + (CHOOSE i \in 1..Len(Ascii) : Ascii[i] = c)

Chr(n) == Ascii[n - 31]

\* str.lower() on one character: 'A'..'Z' (65..90) map to 'a'..'z'
LowerChar(c) == IF Ord(c) >= 65 /\ Ord(c) <= 90 THEN Chr(Ord(c) + 32) ELSE c

\* str.lower()
Lower(s) == [i \in 1..Len(s) |-> LowerChar(s[i])]

\* str.startswith
StartsWith(s, p) == Len(s) >= Len(p) /\ SubSeq(s, 1, Len(p)) = p

\* str.endswith
EndsWith(s, p) == Len(s) >= Len(p) /\ SubSeq(s, Len(s) - Len(p) + 1, Len(s)) = p

\* the `in` operator on strings: sub in s
Contains(s, sub) ==
  \E i \in 1..(Len(s) - Len(sub) + 1) : SubSeq(s, i, i + Len(sub) - 1) = sub

\* s < t for Python strings: lexicographic by code point
RECURSIVE StrLess(_, _)
StrLess(s, t) ==
  IF t = <<>> THEN FALSE
  ELSE IF s = <<>> THEN TRUE
  ELSE IF Ord(s[1]) # Ord(t[1]) THEN Ord(s[1]) < Ord(t[1])
  ELSE StrLess(Tail(s), Tail(t))

\* sep.join(parts)
RECURSIVE Join(_, _)
Join(sep, parts) ==
  IF parts = <<>> THEN <<>>
  ELSE IF Len(parts) = 1 THEN parts[1]
  ELSE parts[1] \o sep \o Join(sep, Tail(parts))

\* decimal rendering of a non-negative int
RECURSIVE IntToStr(_)
IntToStr(n) ==
  IF n < 10 THEN <<Chr(48 + n)>>
  ELSE IntToStr(n \div 10) \o <<Chr(48 + (n % 10))>>

-----------------------------------------------------------------------------
(* Python values *)

PyNone == [t |-> "none"]
PyBool(b) == [t |-> "bool", b |-> b]
PyInt(n) == [t |-> "int", n |-> n]
PyStr(s) == [t |-> "str", s |-> s]

PyTrue == PyBool(TRUE)
PyFalse == PyBool(FALSE)

\* str(value), as the %s conversion renders it
PyToStr(v) ==
  CASE v.t = "none" -> <<"N","o","n","e">>
    [] v.t = "bool" -> IF v.b THEN <<"T","r","u","e">> ELSE <<"F","a","l","s","e">>
    [] v.t = "int" -> IntToStr(v.n)
    [] v.t = "str" -> v.s

\* truth value of a Python value (`if x:` / `not x`)
\* a truth test that every value passes
Truthy_of_any_value(v) == TRUE

Truthy(v) ==
  CASE v.t = "none" -> FALSE
    [] v.t = "bool" -> v.b
    [] v.t = "int" -> v.n # 0
    [] v.t = "str" -> v.s # <<>>

\* what a call gives: a returned value or a raised exception
Return(v) == [raised |-> "", value |-> v]
Raise(e) == [raised |-> e, value |-> PyNone]

-----------------------------------------------------------------------------
(* Module constants *)

\* 'keras_saved_model'
KERAS_SAVED_MODEL == <<"k","e","r","a","s","_","s","a","v","e","d","_","m","o","d","e","l">>
\* 'keras'
KERAS_MODEL == <<"k","e","r","a","s">>
\* 'tf_saved_model'
TF_SAVED_MODEL == <<"t","f","_","s","a","v","e","d","_","m","o","d","e","l">>
\* 'tf_hub'
TF_HUB == <<"t","f","_","h","u","b">>
\* 'tfjs_keras_model'
TFJS_GRAPH_MODEL == <<"t","f","j","s","_","k","e","r","a","s","_","m","o","d","e","l">>
\* 'tfjs_layers_model'
TFJS_LAYERS_MODEL == <<"t","f","j","s","_","l","a","y","e","r","s","_","m","o","d","e","l">>

\* the question names (dictionary keys)
K_input_path == <<"i","n","p","u","t","_","p","a","t","h">>
K_output_path == <<"o","u","t","p","u","t","_","p","a","t","h">>
K_input_format == <<"i","n","p","u","t","_","f","o","r","m","a","t">>
K_output_format == <<"o","u","t","p","u","t","_","f","o","r","m","a","t">>
K_saved_model_tags == <<"s","a","v","e","d","_","m","o","d","e","l","_","t","a","g","s">>
K_signature_name == <<"s","i","g","n","a","t","u","r","e","_","n","a","m","e">>
K_quantization_bytes == <<"q","u","a","n","t","i","z","a","t","i","o","n","_","b","y","t","e","s">>
K_weight_shard_size_byte == <<"w","e","i","g","h","t","_","s","h","a","r","d","_","s","i","z","e","_","b","y","t","e">>
K_split_weights_by_layer == <<"s","p","l","i","t","_","w","e","i","g","h","t","s","_","b","y","_","l","a","y","e","r">>
K_skip_op_check == <<"s","k","i","p","_","o","p","_","c","h","e","c","k">>
K_strip_debug_ops == <<"s","t","r","i","p","_","d","e","b","u","g","_","o","p","s">>

\* TFHUB_VALID_URL_REGEX = re.compile(r'^(?:http)s?://', re.IGNORECASE);
\* re.match anchors at the start of the string
MatchesTfhubUrl(s) ==
  \/ StartsWith(Lower(s), <<"h","t","t","p",":","/","/">>)
  \/ StartsWith(Lower(s), <<"h","t","t","p","s",":","/","/">>)

-----------------------------------------------------------------------------
(* The filesystem and os.path *)

\* a format value json.load's result has no 'format' key for
NoFormat == [t |-> "missing"]

\* a directory with its os.listdir order
DirNode(names) ==
  [kind |-> "dir", entries |-> names, json_ok |-> FALSE, format |-> NoFormat,
   saved_model_ok |-> FALSE, meta_graphs |-> <<>>]

\* a regular file: whether it parses as JSON and its 'format' field, whether
\* it parses as a SavedModel proto and its meta graphs
FileNode(json_ok, format, saved_model_ok, meta_graphs) ==
  [kind |-> "file", entries |-> <<>>, json_ok |-> json_ok, format |-> format,
   saved_model_ok |-> saved_model_ok, meta_graphs |-> meta_graphs]

\* the user's home directory, which os.path.expanduser substitutes for ~
HOME == <<"/","h">>

\* os.path.expanduser: a leading ~ alone or before / becomes the home
\* directory; everything else is returned unchanged
expanduser(path) ==
  IF path # <<>> /\ path[1] = "~" /\ (Len(path) = 1 \/ path[2] = "/")
  THEN HOME \o Tail(path)
  ELSE path

\* os.path.join(a, b)
PathJoin(a, b) ==
  IF b # <<>> /\ b[1] = "/" THEN b
  ELSE IF a = <<>> \/ a[Len(a)] = "/" THEN a \o b
  ELSE a \o <<"/">> \o b

exists(fsys, path) == path \in DOMAIN fsys
isdir(fsys, path) == path \in DOMAIN fsys /\ fsys[path].kind = "dir"
isfile(fsys, path) == path \in DOMAIN fsys /\ fsys[path].kind = "file"
listdir(fsys, path) == fsys[path].entries

\* any(pred(fname) for fname in names) for the suffix tests of the code
AnyEndsWith(names, suffix, lowered) ==
  \E i \in 1..Len(names) :
    EndsWith(IF lowered THEN Lower(names[i]) ELSE names[i], suffix)

-----------------------------------------------------------------------------
(* cli.py: the functions *)

\* quantization_type(user_selection_quant)
quantization_type(user_selection_quant) ==
  IF Contains(user_selection_quant, <<"1","/","2">>) THEN PyInt(2)
  ELSE IF Contains(user_selection_quant, <<"1","/","4">>) THEN PyInt(1)
  ELSE PyNone

\* value_in_list answering True whatever the answers hold
value_in_list_always_true(ans, key, values) == TRUE

\* value_in_list(answers, key, values): False on KeyError
value_in_list(ans, key, values) ==
  IF key \in DOMAIN ans THEN ans[key] \in values ELSE FALSE

\* get_tfjs_model_type(file): open, json.load, data['format']; each of the
\* three can raise and nothing here catches it
get_tfjs_model_type(fsys, file) ==
  IF ~exists(fsys, file) THEN Raise("FileNotFoundError")
  ELSE IF fsys[file].kind = "dir" THEN Raise("IsADirectoryError")
  ELSE IF ~fsys[file].json_ok THEN Raise("JSONDecodeError")
  ELSE IF fsys[file].format = NoFormat THEN Raise("KeyError")
  ELSE Return(fsys[file].format)

\* what detect_input_format returns: (detected_input_format, input_path)
DetectReturn(format, path) == [raised |-> "", format |-> format, path |-> path]
DetectRaise(e) == [raised |-> e, format |-> PyNone, path |-> <<>>]

\* the for loop of detect_input_format over os.listdir(input_path), from
\* entry i on
RECURSIVE ScanJsonEntries(_, _, _, _)
ScanJsonEntries(fsys, input_path, names, i) ==
  IF i > Len(names) THEN DetectReturn(PyNone, input_path)
  ELSE
    LET fname == Lower(names[i])
        filename == PathJoin(input_path, fname)
        type == get_tfjs_model_type(fsys, filename)
    IN IF ~EndsWith(fname, <<".","j","s","o","n">>)
       THEN ScanJsonEntries(fsys, input_path, names, i + 1)
       ELSE IF type.raised # "" THEN DetectRaise(type.raised)
       ELSE IF type.value = PyStr(<<"l","a","y","e","r","s","-","m","o","d","e","l">>)
       THEN DetectReturn(PyStr(TFJS_LAYERS_MODEL), PathJoin(input_path, fname))
       ELSE ScanJsonEntries(fsys, input_path, names, i + 1)

\* the path detect_input_format works on: input_path = input_path.lower()
DetectPath(raw) == Lower(raw)

\* detect_input_format(input_path)
detect_input_format(fsys, raw) ==
  LET input_path == DetectPath(raw) IN
  IF MatchesTfhubUrl(input_path) THEN DetectReturn(PyStr(TF_HUB), input_path)
  ELSE IF isdir(fsys, input_path) THEN
    IF AnyEndsWith(listdir(fsys, input_path), <<".","p","b">>, TRUE)
    THEN DetectReturn(PyStr(TF_SAVED_MODEL), input_path)
    ELSE ScanJsonEntries(fsys, input_path, listdir(fsys, input_path), 1)
  ELSE IF isfile(fsys, input_path) THEN
    IF EndsWith(input_path, <<".","h","d","f","5">>)
    THEN DetectReturn(PyStr(KERAS_MODEL), input_path)
    ELSE IF EndsWith(input_path, <<".","p","b">>)
    THEN DetectReturn(PyStr(TF_SAVED_MODEL), input_path)
    ELSE IF EndsWith(input_path, <<".","j","s","o","n">>)
    THEN LET type == get_tfjs_model_type(fsys, input_path) IN
         IF type.raised # "" THEN DetectRaise(type.raised)
         ELSE IF type.value = PyStr(<<"l","a","y","e","r","s","-","m","o","d","e","l">>)
         THEN DetectReturn(PyStr(TFJS_LAYERS_MODEL), input_path)
         ELSE DetectReturn(PyNone, input_path)
    ELSE DetectReturn(PyNone, input_path)
  ELSE DetectReturn(PyNone, input_path)

\* 'Please provide a valid output path'
MSG_VALID_OUTPUT == <<"P","l","e","a","s","e"," ","p","r","o","v","i","d","e"," ","a"," ","v","a","l","i","d"," ","o","u","t","p","u","t"," ","p","a","t","h">>
\* 'The output path already exists: '
MSG_OUTPUT_EXISTS == <<"T","h","e"," ","o","u","t","p","u","t"," ","p","a","t","h"," ","a","l","r","e","a","d","y"," ","e","x","i","s","t","s",":"," ">>

\* validate_output_path without the os.path.exists test
validate_output_path_no_exists_test(fsys, raw) ==
  IF expanduser(raw) = <<>> THEN PyStr(MSG_VALID_OUTPUT) ELSE PyTrue

\* validate_output_path(output_path): True, or the reason as a string
validate_output_path(fsys, raw) ==
  LET output_path == expanduser(raw) IN
  IF output_path = <<>> THEN PyStr(MSG_VALID_OUTPUT)
  ELSE IF exists(fsys, output_path) THEN PyStr(MSG_OUTPUT_EXISTS \o output_path)
  ELSE PyTrue

\* 'Please enter a valid path'
MSG_VALID_PATH == <<"P","l","e","a","s","e"," ","e","n","t","e","r"," ","a"," ","v","a","l","i","d"," ","p","a","t","h">>
\* 'This is not an valid URL for TFHub module: '
MSG_NOT_URL == <<"T","h","i","s"," ","i","s"," ","n","o","t"," ","a","n"," ","v","a","l","i","d"," ","U","R","L"," ","f","o","r"," ","T","F","H","u","b"," ","m","o","d","u","l","e",":"," ">>
\* ',<newline>        We expect a URL that starts with http(s)://'
MSG_NOT_URL_TAIL == <<",","<newline>"," "," "," "," "," "," "," "," ","W","e"," ","e","x","p","e","c","t"," ","a"," ","U","R","L"," ","t","h","a","t"," ","s","t","a","r","t","s"," ","w","i","t","h"," ","h","t","t","p","(","s",")",":","/","/">>
\* 'Nonexistent path for the model: '
MSG_NONEXISTENT == <<"N","o","n","e","x","i","s","t","e","n","t"," ","p","a","t","h"," ","f","o","r"," ","t","h","e"," ","m","o","d","e","l",":"," ">>
\* 'The path provided is not a directory or .pb file: '
MSG_NOT_DIR_OR_PB == <<"T","h","e"," ","p","a","t","h"," ","p","r","o","v","i","d","e","d"," ","i","s"," ","n","o","t"," ","a"," ","d","i","r","e","c","t","o","r","y"," ","o","r"," ",".","p","b"," ","f","i","l","e",":"," ">>
\* 'Did not find a .pb file inside the directory: '
MSG_NO_PB_INSIDE == <<"D","i","d"," ","n","o","t"," ","f","i","n","d"," ","a"," ",".","p","b"," ","f","i","l","e"," ","i","n","s","i","d","e"," ","t","h","e"," ","d","i","r","e","c","t","o","r","y",":"," ">>
\* 'The path provided is not a directory or .json file: '
MSG_NOT_DIR_OR_JSON == <<"T","h","e"," ","p","a","t","h"," ","p","r","o","v","i","d","e","d"," ","i","s"," ","n","o","t"," ","a"," ","d","i","r","e","c","t","o","r","y"," ","o","r"," ",".","j","s","o","n"," ","f","i","l","e",":"," ">>
\* 'The path provided is not a file: '
MSG_NOT_FILE == <<"T","h","e"," ","p","a","t","h"," ","p","r","o","v","i","d","e","d"," ","i","s"," ","n","o","t"," ","a"," ","f","i","l","e",":"," ">>

\* validate_input_path(input_path, input_format): True, or the reason
validate_input_path(fsys, input_path, input_format) ==
  LET path == expanduser(input_path)
      is_dir == isdir(fsys, path)
  IN
  IF path = <<>> THEN PyStr(MSG_VALID_PATH)
  ELSE IF input_format = TF_HUB /\ ~MatchesTfhubUrl(path)
  THEN PyStr(MSG_NOT_URL \o path \o MSG_NOT_URL_TAIL)
  ELSE IF input_format # TF_HUB /\ ~exists(fsys, path)
  THEN PyStr(MSG_NONEXISTENT \o path)
  ELSE IF input_format \in {KERAS_SAVED_MODEL, TF_SAVED_MODEL}
          /\ ~is_dir /\ ~EndsWith(path, <<".","p","b">>)
  THEN PyStr(MSG_NOT_DIR_OR_PB \o path)
  ELSE IF input_format \in {KERAS_SAVED_MODEL, TF_SAVED_MODEL}
          /\ is_dir /\ ~AnyEndsWith(listdir(fsys, path), <<".","p","b">>, FALSE)
  THEN PyStr(MSG_NO_PB_INSIDE \o path)
  ELSE IF input_format = TFJS_LAYERS_MODEL
          /\ ~is_dir /\ ~EndsWith(path, <<".","j","s","o","n">>)
  THEN PyStr(MSG_NOT_DIR_OR_JSON \o path)
  ELSE IF input_format = TFJS_LAYERS_MODEL
          /\ is_dir /\ ~AnyEndsWith(listdir(fsys, path), <<".","j","s","o","n">>, FALSE)
  THEN PyStr(MSG_NO_PB_INSIDE \o path)
  ELSE IF input_format = KERAS_MODEL /\ ~isfile(fsys, path)
  THEN PyStr(MSG_NOT_FILE \o path)
  ELSE PyTrue

\* the for loop of expand_input_path: the first entry ending in .json
RECURSIVE FirstJsonEntry(_, _, _)
FirstJsonEntry(input_path, names, i) ==
  IF i > Len(names) THEN input_path
  ELSE IF EndsWith(names[i], <<".","j","s","o","n">>)
  THEN PathJoin(input_path, names[i])
  ELSE FirstJsonEntry(input_path, names, i + 1)

\* expand_input_path(input_format, input_path)
expand_input_path(fsys, input_format, raw) ==
  LET input_path == expanduser(raw) IN
  IF isdir(fsys, input_path)
  THEN FirstJsonEntry(input_path, listdir(fsys, input_path), 1)
  ELSE input_path

\* not_param_list of generate_arguments
not_param_list == {K_input_path, K_output_path}

\* no_false_param of generate_arguments
no_false_param == {K_split_weights_by_layer, K_skip_op_check}

\* the keys in descending order, as a loop over reversed(sorted(...)) would
\* visit them
RECURSIVE SortedKeys_descending(_)
SortedKeys_descending(keys) ==
  IF keys = {} THEN <<>>
  ELSE LET greatest == CHOOSE k \in keys : \A o \in keys \ {k} : StrLess(o, k)
       IN <<greatest>> \o SortedKeys_descending(keys \ {greatest})

\* the keys of sorted(params.items()): the items are (key, value) pairs with
\* distinct keys, so they sort by key
RECURSIVE SortedKeys(_)
SortedKeys(keys) ==
  IF keys = {} THEN <<>>
  ELSE LET least == CHOOSE k \in keys : \A o \in keys \ {k} : StrLess(k, o)
       IN <<least>> \o SortedKeys(keys \ {least})

\* the loop body without `if value is True`: a no_false_param key is
\* emitted whatever its value
FlagEntry_without_true_test(key, value) ==
  IF key \notin not_param_list /\ value # PyNone
  THEN IF key \in no_false_param
       THEN << <<"-","-">> \o key >>
       ELSE << <<"-","-">> \o key \o <<"=">> \o PyToStr(value) >>
  ELSE <<>>

\* what one iteration of the loop of generate_arguments appends for (key, value)
FlagEntry(key, value) ==
  IF key \notin not_param_list /\ value # PyNone
  THEN IF key \in no_false_param
       THEN IF value = PyTrue THEN << <<"-","-">> \o key >> ELSE <<>>
       ELSE << <<"-","-">> \o key \o <<"=">> \o PyToStr(value) >>
  ELSE <<>>

\* the loop of generate_arguments over the sorted keys
RECURSIVE FlagEntries(_, _)
FlagEntries(params, keys) ==
  IF keys = <<>> THEN <<>>
  ELSE FlagEntry(keys[1], params[keys[1]]) \o FlagEntries(params, Tail(keys))

\* the two appends in the other order
PositionalEntries_swapped(params) ==
  <<params[K_output_path].s, params[K_input_path].s>>

\* the two positional arguments generate_arguments appends at the end
PositionalEntries(params) == <<params[K_input_path].s, params[K_output_path].s>>

\* generate_arguments(params)
generate_arguments(params) ==
  FlagEntries(params, SortedKeys(DOMAIN params)) \o PositionalEntries(params)

\* is_saved_model(input_format)
is_saved_model(input_format) ==
  input_format = PyStr(TF_SAVED_MODEL) \/ input_format = PyStr(KERAS_SAVED_MODEL)

\* available_output_formats returning the keras_saved_model choices whatever
\* the input format
available_output_formats_for_any_format(ans) ==
  <<PyStr(TFJS_GRAPH_MODEL), PyStr(TFJS_LAYERS_MODEL)>>

\* available_output_formats(answers): the 'value' of each choice, in order
available_output_formats(ans) ==
  IF ans[K_input_format] = PyStr(KERAS_SAVED_MODEL)
  THEN <<PyStr(TFJS_GRAPH_MODEL), PyStr(TFJS_LAYERS_MODEL)>>
  ELSE IF ans[K_input_format] = PyStr(TFJS_LAYERS_MODEL)
  THEN <<PyStr(KERAS_MODEL), PyStr(TFJS_LAYERS_MODEL)>>
  ELSE <<>>

\* 'saved_model.pb'
SAVED_MODEL_PB == <<"s","a","v","e","d","_","m","o","d","e","l",".","p","b">>

\* tensorflow's parse_saved_model(export_dir): reads export_dir/saved_model.pb
\* and raises IOError when it is missing or does not parse
parse_saved_model(fsys, export_dir) ==
  LET file == PathJoin(export_dir, SAVED_MODEL_PB) IN
  IF isfile(fsys, file) /\ fsys[file].saved_model_ok
  THEN [raised |-> "", meta_graphs |-> fsys[file].meta_graphs]
  ELSE [raised |-> "IOError", meta_graphs |-> <<>>]

\* ",".join(meta_graph.meta_info_def.tags)
JoinedTags(meta_graph) == Join(<<",">>, meta_graph.tags)

\* available_tags offering the tag serve when the saved model cannot be read
available_tags_default_on_failure(fsys, ans) ==
  [raised |-> "", choices |-> <<PyStr(<<"s","e","r","v","e">>)>>]

\* available_tags(answers): the list of choices, or the exception raised
available_tags(fsys, ans) ==
  IF is_saved_model(ans[K_input_format])
  THEN LET saved_model == parse_saved_model(fsys, ans[K_input_path].s) IN
       IF saved_model.raised # ""
       THEN [raised |-> saved_model.raised, choices |-> <<>>]
       ELSE [raised |-> "",
             choices |-> [i \in 1..Len(saved_model.meta_graphs) |->
                            PyStr(JoinedTags(saved_model.meta_graphs[i]))]]
  ELSE [raised |-> "", choices |-> <<>>]

\* the loop of available_signature_names over the meta graphs, from graph i
\* on: the signature keys of the first graph whose joined tags equal `tags`
RECURSIVE SignaturesOfTags(_, _, _)
SignaturesOfTags(meta_graphs, tags, i) ==
  IF i > Len(meta_graphs) THEN <<>>
  ELSE IF tags = PyStr(JoinedTags(meta_graphs[i]))
  THEN [j \in 1..Len(meta_graphs[i].signature_def) |->
          PyStr(meta_graphs[i].signature_def[j])]
  ELSE SignaturesOfTags(meta_graphs, tags, i + 1)

\* available_signature_names(answers): the 'value' of each choice (the
\* display name format_signature builds is not part of the answer)
available_signature_names(fsys, ans) ==
  IF is_saved_model(ans[K_input_format])
  THEN LET saved_model == parse_saved_model(fsys, ans[K_input_path].s) IN
       IF saved_model.raised # ""
       THEN [raised |-> saved_model.raised, choices |-> <<>>]
       ELSE [raised |-> "",
             choices |-> SignaturesOfTags(saved_model.meta_graphs,
                                          ans[K_saved_model_tags], 1)]
  ELSE [raised |-> "", choices |-> <<>>]

\* input_format_string(base, target_format, detected_format)
input_format_string(base, target_format, detected_format) ==
  IF PyStr(target_format) = detected_format THEN base \o <<" ","*">> ELSE base

\* the list literal of input_formats, before the sort
InputFormatList(detected_format) ==
  << [key |-> "k", value |-> KERAS_MODEL,
      name |-> input_format_string(<<"K","e","r","a","s"," ","(","H","D","F","5",")">>,
                                   KERAS_MODEL, detected_format)],
     [key |-> "e", value |-> KERAS_SAVED_MODEL,
      name |-> input_format_string(<<"T","e","n","s","o","r","f","l","o","w"," ","K","e","r","a","s"," ","S","a","v","e","d"," ","M","o","d","e","l">>,
                                   KERAS_SAVED_MODEL, detected_format)],
     [key |-> "s", value |-> TF_SAVED_MODEL,
      name |-> input_format_string(<<"T","e","n","s","o","r","f","l","o","w"," ","S","a","v","e","d"," ","M","o","d","e","l">>,
                                   TF_SAVED_MODEL, detected_format)],
     [key |-> "h", value |-> TF_HUB,
      name |-> input_format_string(<<"T","F","H","u","b"," ","M","o","d","u","l","e">>,
                                   TF_HUB, detected_format)],
     [key |-> "l", value |-> TFJS_LAYERS_MODEL,
      name |-> input_format_string(<<"T","e","n","s","o","F","l","o","w",".","j","s"," ","L","a","y","e","r","s"," ","M","o","d","e","l">>,
                                   TFJS_LAYERS_MODEL, detected_format)] >>

\* input_formats without the formats.sort(...) line
input_formats_unsorted(detected_format) == InputFormatList(detected_format)

\* input_formats(detected_format): formats.sort(key=lambda x: x['value'] !=
\* detected_format) is a stable sort on a boolean key, False first
input_formats(detected_format) ==
  LET formats == InputFormatList(detected_format)
      IsDetected(x) == PyStr(x.value) = detected_format
      IsOther(x) == PyStr(x.value) # detected_format
  IN SelectSeq(formats, IsDetected) \o SelectSeq(formats, IsOther)

-----------------------------------------------------------------------------
(* The environment: a filesystem, and what the user may type *)

P_sm == <<"/","s","m">>
P_Up == <<"/","U","p">>
P_l == <<"/","l">>
P_b == <<"/","b">>
P_n == <<"/","n">>
P_c == <<"/","c">>
P_g == <<"/","g">>
P_e == <<"/","e">>
P_k_hdf5 == <<"/","k",".","h","d","f","5">>
P_w_pb == <<"/","w",".","p","b">>
P_m_json == <<"/","m",".","j","s","o","n">>
P_x_json == <<"/","x",".","j","s","o","n">>
P_ns == <<"/","n","s">>
P_zz == <<"/","z","z">>
P_o == <<"/","o">>
P_tilde == <<"~">>
P_tilde_o == <<"~","/","o">>
URL_lower == <<"h","t","t","p",":","/","/","t","/","m">>
URL_upper == <<"H","T","T","P","S",":","/","/","T","/","M">>

N_a_json == <<"a",".","j","s","o","n">>
N_r_txt == <<"r",".","t","x","t">>
N_model_json == <<"m","o","d","e","l",".","j","s","o","n">>
N_bad_json == <<"b","a","d",".","j","s","o","n">>
N_p_json == <<"p",".","j","s","o","n">>
N_M_JSON == <<"M",".","J","S","O","N">>
N_g_json == <<"g",".","j","s","o","n">>

LayersModelJson ==
  FileNode(TRUE, PyStr(<<"l","a","y","e","r","s","-","m","o","d","e","l">>), FALSE, <<>>)
GraphModelJson ==
  FileNode(TRUE, PyStr(<<"g","r","a","p","h","-","m","o","d","e","l">>), FALSE, <<>>)
JsonWithoutFormat == FileNode(TRUE, NoFormat, FALSE, <<>>)
NotJson == FileNode(FALSE, NoFormat, FALSE, <<>>)

\* a SavedModel with two meta graphs: tags serve, and tags serve,gpu
GoodSavedModel ==
  FileNode(FALSE, NoFormat, TRUE,
    << [tags |-> << <<"s","e","r","v","e">> >>,
        signature_def |-> << <<"s","e","r","v","i","n","g","_","d","e","f","a","u","l","t">>,
                             <<"p","r","e","d","i","c","t">> >>],
       [tags |-> << <<"s","e","r","v","e">>, <<"g","p","u">> >>,
        signature_def |-> << <<"s","e","r","v","i","n","g","_","d","e","f","a","u","l","t">> >>] >>)

\* a SavedModel whose only meta graph (tags serve) has no signature
SavedModelWithoutSignatures ==
  FileNode(FALSE, NoFormat, TRUE,
    << [tags |-> << <<"s","e","r","v","e">> >>, signature_def |-> <<>>] >>)

\* a filesystem (case-sensitive names); json_first is the os.listdir order of
\* /b, which the platform decides
FileSystem(json_first) ==
     HOME :> DirNode(<<>>)
  @@ P_sm :> DirNode(<<SAVED_MODEL_PB, N_a_json>>)
  @@ PathJoin(P_sm, SAVED_MODEL_PB) :> GoodSavedModel
  @@ PathJoin(P_sm, N_a_json) :> NotJson
  @@ P_Up :> DirNode(<<SAVED_MODEL_PB>>)
  @@ PathJoin(P_Up, SAVED_MODEL_PB) :> GoodSavedModel
  @@ P_ns :> DirNode(<<SAVED_MODEL_PB>>)
  @@ PathJoin(P_ns, SAVED_MODEL_PB) :> SavedModelWithoutSignatures
  @@ P_l :> DirNode(<<N_r_txt, N_model_json>>)
  @@ PathJoin(P_l, N_r_txt) :> NotJson
  @@ PathJoin(P_l, N_model_json) :> LayersModelJson
  @@ P_b :> DirNode(IF json_first THEN <<N_model_json, N_bad_json>>
                                  ELSE <<N_bad_json, N_model_json>>)
  @@ PathJoin(P_b, N_bad_json) :> NotJson
  @@ PathJoin(P_b, N_model_json) :> LayersModelJson
  @@ P_n :> DirNode(<<N_p_json>>)
  @@ PathJoin(P_n, N_p_json) :> JsonWithoutFormat
  @@ P_c :> DirNode(<<N_M_JSON>>)
  @@ PathJoin(P_c, N_M_JSON) :> LayersModelJson
  @@ P_g :> DirNode(<<N_g_json>>)
  @@ PathJoin(P_g, N_g_json) :> GraphModelJson
  @@ P_e :> DirNode(<<>>)
  @@ P_k_hdf5 :> NotJson
  @@ P_w_pb :> NotJson
  @@ P_m_json :> LayersModelJson
  @@ P_x_json :> NotJson

FileSystems == {FileSystem(TRUE), FileSystem(FALSE)}

\* what the user may type at the input path questions
TypedInputPaths ==
  {<<>>, P_sm, P_ns, P_Up, P_l, P_b, P_n, P_c, P_g, P_e, P_k_hdf5, P_w_pb, P_m_json,
   P_x_json, P_zz, P_tilde, URL_lower, URL_upper}

\* what the user may type at the output path question
TypedOutputPaths == {<<>>, P_o, P_sm, P_tilde, P_tilde_o}

\* the 'choices' of the quantization_bytes question
QUANT_NONE == <<"N","o"," ","c","o","m","p","r","e","s","s","i","o","n",","," ","n","o"," ","a","c","c","u","r","a","c","y"," ","l","o","s","s",".">>
QUANT_2X == <<"2","x"," ","c","o","m","p","r","e","s","s","i","o","n",","," ","m","e","d","i","u","m"," ","a","c","c","u","r","a","c","y"," ","l","o","s","s",".">>
QUANT_4X == <<"4","x"," ","c","o","m","p","r","e","s","s","i","o","n",","," ","h","i","g","h","e","s","t"," ","a","c","c","u","r","a","c","y"," ","l","o","s","s",".">>
QuantizationChoices == <<QUANT_NONE, QUANT_2X, QUANT_4X>>

\* 'default': str(4 * 1024 * 1024) of the weight_shard_size_byte question
DefaultShardSize == IntToStr(4 * 1024 * 1024)

\* what the user may type at the weight_shard_size_byte question (an empty
\* entry takes the default)
TypedShardSizes == {<<>>, <<"1","0","2","4">>}

\* sys.argv as the process may be started
PROG == <<"c","l","i",".","p","y">>
DRYRUN_FLAG == <<"-","-","d","r","y","r","u","n">>
ArgVectors ==
  { <<PROG>>, <<PROG, DRYRUN_FLAG>>, <<PROG, <<"d","r","y","r","u","n">> >>,
    <<PROG, DRYRUN_FLAG, DRYRUN_FLAG>>, <<PROG, DRYRUN_FLAG, <<"x">> >> }

\* how many answers a validator rejects in a row before the user gets one right
MaxRejected == 2

-----------------------------------------------------------------------------
(* The process: __main__ and main(dry_run) *)

\* an assignment that drops the other keys of the dict
Put_forgetting_other_keys(ans, key, value) == [k \in {key} |-> value]

\* answers[name] = answer
Put(ans, key, value) ==
  [k \in DOMAIN ans \cup {key} |-> IF k = key THEN value ELSE ans[k]]

\* the empty dict
EmptyDict == [k \in {} |-> PyNone]

Running == [code |-> PyNone, raised |-> ""]
NoCall == [fn |-> "none"]

\* 'Usage: tensorflowjs_cli [--dryrun]'
USAGE == <<"U","s","a","g","e",":"," ","t","e","n","s","o","r","f","l","o","w","j","s","_","c","l","i"," ","[","-","-","d","r","y","r","u","n","]">>
\* 'Weclome to TensorFlow.js converter.'
WELCOME == <<"W","e","c","l","o","m","e"," ","t","o"," ","T","e","n","s","o","r","F","l","o","w",".","j","s"," ","c","o","n","v","e","r","t","e","r",".">>
\* 'converter command generated:'
COMMAND_GENERATED == <<"c","o","n","v","e","r","t","e","r"," ","c","o","m","m","a","n","d"," ","g","e","n","e","r","a","t","e","d",":">>
\* 'tensorflowjs_converter '
CONVERTER_COMMAND == <<"t","e","n","s","o","r","f","l","o","w","j","s","_","c","o","n","v","e","r","t","e","r"," ">>
\* 'file generated after conversion:'
FILE_GENERATED == <<"f","i","l","e"," ","g","e","n","e","r","a","t","e","d"," ","a","f","t","e","r"," ","c","o","n","v","e","r","s","i","o","n",":">>

\* a 'validate' that accepts every entry
validate_first_input_path_accepting_all(path) == PyTrue

\* the 'validate' lambda of the first input_path question
validate_first_input_path(path) ==
  IF path = <<>> THEN PyStr(MSG_VALID_PATH) ELSE PyTrue

\* the 'filter' lambda of the input_path re-entry question:
\*   lambda value: expand_input_path(value, options['input_format'])
\* expand_input_path is declared (input_format, input_path), so the typed
\* value is bound to input_format and the format to input_path
filter_input_path_again(fsys, value, input_format) ==
  expand_input_path(fsys, value, input_format)

\* `not detect_input_format` in the 'when' lambda of the input_path re-entry
\* question: detect_input_format names the function, and a function object
\* is true
when_input_path_again == ~TRUE

Init ==
  /\ fs \in FileSystems
  /\ argv \in ArgVectors
  /\ pc = "entry"
  /\ exit_status = Running
  /\ dry_run = PyNone
  /\ answers = EmptyDict
  /\ typed = EmptyDict
  /\ detected = PyNone
  /\ asked = <<>>
  /\ rejected = 0
  /\ arguments = <<>>
  /\ stdout = <<>>
  /\ converter_calls = <<>>
  /\ call = NoCall
  /\ ret = PyNone

\* an uncaught exception ends the process with exit code 1
Abort(e) ==
  /\ pc' = "exit"
  /\ exit_status' = [code |-> PyInt(1), raised |-> e]

\* prompt: the answer passed the validator; answers[name] = filter(answer),
\* and the next question follows
Accept(name, entry, value, next) ==
  /\ answers' = Put(answers, name, value)
  /\ typed' = Put(typed, name, entry)
  /\ asked' = Append(asked, name)
  /\ pc' = next
  /\ rejected' = 0
  /\ UNCHANGED exit_status

\* prompt: 'when' is false: the question is skipped and stores nothing
Skip(next) ==
  /\ pc' = next
  /\ UNCHANGED <<exit_status, answers, typed, asked, rejected>>

\* prompt: the validator rejected the answer: the same question stays on the
\* screen
Reprompt ==
  /\ rejected < MaxRejected
  /\ rejected' = rejected + 1
  /\ UNCHANGED <<pc, exit_status, answers, typed, asked>>

\* prompt: computing the question raised
AbortQuestion(e) ==
  /\ Abort(e)
  /\ UNCHANGED <<answers, typed, asked, rejected>>

\* the `if __name__ == '__main__':` block.  The condition is
\*   len(sys.argv) > 2 or (len(sys.argv) == 1 and not sys.argv[1] == 'dryrun')
\* and sys.argv[1] raises IndexError when len(sys.argv) == 1
EntryPoint ==
  /\ pc = "entry"
  /\ IF Len(argv) > 2
     THEN /\ stdout' = Append(stdout, USAGE)
          /\ pc' = "exit"
          /\ exit_status' = [code |-> PyInt(1), raised |-> ""]
          /\ UNCHANGED dry_run
     ELSE IF Len(argv) = 1
     THEN /\ Abort("IndexError")
          /\ UNCHANGED <<stdout, dry_run>>
     ELSE /\ dry_run' = PyBool(argv[2] = DRYRUN_FLAG)
          /\ stdout' = Append(stdout, WELCOME)
          /\ pc' = "q_input_path"
          /\ UNCHANGED exit_status
  /\ UNCHANGED <<fs, argv, answers, typed, detected, asked, rejected,
                 arguments, converter_calls, call, ret>>

\* main: prompt(input_path): the first input_path question
AskInputPath ==
  /\ pc = "q_input_path"
  /\ \E text \in TypedInputPaths :
       IF validate_first_input_path(text) # PyTrue
       THEN Reprompt
       ELSE Accept(K_input_path, PyStr(text), PyStr(expanduser(text)), "detect")
  /\ UNCHANGED <<fs, argv, dry_run, detected, arguments, stdout,
                 converter_calls, call, ret>>

\* main: detected_input_format, normalized_path = detect_input_format(...);
\* input_params['input_path'] = normalized_path
Detect ==
  /\ pc = "detect"
  /\ LET r == detect_input_format(fs, answers[K_input_path].s) IN
     IF r.raised # ""
     THEN /\ Abort(r.raised)
          /\ UNCHANGED <<detected, answers>>
     ELSE /\ detected' = r.format
          /\ answers' = Put(answers, K_input_path, PyStr(r.path))
          /\ pc' = "q_input_format"
          /\ UNCHANGED exit_status
  /\ UNCHANGED <<fs, argv, dry_run, typed, asked, rejected, arguments, stdout,
                 converter_calls, call, ret>>

\* a 'list' question whose choices are `choices`: the user picks one; with
\* no choice on the screen there is nothing to select
PickFrom(name, choices, next) ==
  IF choices = <<>>
  THEN AbortQuestion("IndexError")
  ELSE \E i \in 1..Len(choices) : Accept(name, choices[i], choices[i], next)

\* a 'list' question whose choices a provider computes: the provider may raise
PickFromProvided(name, provided, next) ==
  IF provided.raised # ""
  THEN AbortQuestion(provided.raised)
  ELSE PickFrom(name, provided.choices, next)

\* a 'confirm' question: the answer is True or False
Confirm(name, next) ==
  \E b \in BOOLEAN : Accept(name, PyBool(b), PyBool(b), next)

\* main: the input_format question
AskInputFormat ==
  /\ pc = "q_input_format"
  /\ LET formats == input_formats(detected) IN
     PickFrom(K_input_format,
              [i \in 1..Len(formats) |-> PyStr(formats[i].value)],
              "q_output_format")
  /\ UNCHANGED <<fs, argv, dry_run, detected, arguments, stdout,
                 converter_calls, call, ret>>

\* main: the output_format question
AskOutputFormat ==
  /\ pc = "q_output_format"
  /\ IF value_in_list(answers, K_input_format,
                      {PyStr(KERAS_SAVED_MODEL), PyStr(TFJS_LAYERS_MODEL)})
     THEN PickFrom(K_output_format, available_output_formats(answers),
                   "q_input_path_again")
     ELSE Skip("q_input_path_again")
  /\ UNCHANGED <<fs, argv, dry_run, detected, arguments, stdout,
                 converter_calls, call, ret>>

\* main: the input_path re-entry question.  Its filter is
\*   lambda value: expand_input_path(value, options['input_format'])
\* which hands the typed value to the parameter input_format and the format
\* to the parameter input_path
AskInputPathAgain ==
  /\ pc = "q_input_path_again"
  /\ IF when_input_path_again
     THEN \E text \in TypedInputPaths :
            IF validate_input_path(fs, text, answers[K_input_format].s) # PyTrue
            THEN Reprompt
            ELSE Accept(K_input_path, PyStr(text),
                        PyStr(filter_input_path_again(fs, text,
                                                      answers[K_input_format].s)),
                        "q_saved_model_tags")
     ELSE Skip("q_saved_model_tags")
  /\ UNCHANGED <<fs, argv, dry_run, detected, arguments, stdout,
                 converter_calls, call, ret>>

\* main: the saved_model_tags question
AskSavedModelTags ==
  /\ pc = "q_saved_model_tags"
  /\ IF is_saved_model(answers[K_input_format])
     THEN PickFromProvided(K_saved_model_tags, available_tags(fs, answers),
                           "q_signature_name")
     ELSE Skip("q_signature_name")
  /\ UNCHANGED <<fs, argv, dry_run, detected, arguments, stdout,
                 converter_calls, call, ret>>

\* main: the signature_name question
AskSignatureName ==
  /\ pc = "q_signature_name"
  /\ IF is_saved_model(answers[K_input_format])
     THEN PickFromProvided(K_signature_name,
                           available_signature_names(fs, answers),
                           "q_quantization_bytes")
     ELSE Skip("q_quantization_bytes")
  /\ UNCHANGED <<fs, argv, dry_run, detected, arguments, stdout,
                 converter_calls, call, ret>>

\* main: the quantization_bytes question, with 'filter': quantization_type
AskQuantizationBytes ==
  /\ pc = "q_quantization_bytes"
  /\ \E i \in 1..Len(QuantizationChoices) :
       Accept(K_quantization_bytes, PyStr(QuantizationChoices[i]),
              quantization_type(QuantizationChoices[i]),
              "q_weight_shard_size_byte")
  /\ UNCHANGED <<fs, argv, dry_run, detected, arguments, stdout,
                 converter_calls, call, ret>>

\* main: the weight_shard_size_byte question
AskWeightShardSizeByte ==
  /\ pc = "q_weight_shard_size_byte"
  /\ IF value_in_list(answers, K_output_format, {PyStr(TFJS_LAYERS_MODEL)})
     THEN \E text \in TypedShardSizes :
            Accept(K_weight_shard_size_byte, PyStr(text),
                   PyStr(IF text = <<>> THEN DefaultShardSize ELSE text),
                   "q_split_weights_by_layer")
     ELSE Skip("q_split_weights_by_layer")
  /\ UNCHANGED <<fs, argv, dry_run, detected, arguments, stdout,
                 converter_calls, call, ret>>

\* main: the split_weights_by_layer question
AskSplitWeightsByLayer ==
  /\ pc = "q_split_weights_by_layer"
  /\ IF value_in_list(answers, K_input_format, {PyStr(TFJS_LAYERS_MODEL)})
     THEN Confirm(K_split_weights_by_layer, "q_skip_op_check")
     ELSE Skip("q_skip_op_check")
  /\ UNCHANGED <<fs, argv, dry_run, detected, arguments, stdout,
                 converter_calls, call, ret>>

\* main: the skip_op_check question
AskSkipOpCheck ==
  /\ pc = "q_skip_op_check"
  /\ IF value_in_list(answers, K_input_format,
                      {PyStr(TF_SAVED_MODEL), PyStr(TF_HUB)})
     THEN Confirm(K_skip_op_check, "q_strip_debug_ops")
     ELSE Skip("q_strip_debug_ops")
  /\ UNCHANGED <<fs, argv, dry_run, detected, arguments, stdout,
                 converter_calls, call, ret>>

\* main: the strip_debug_ops question
AskStripDebugOps ==
  /\ pc = "q_strip_debug_ops"
  /\ IF value_in_list(answers, K_input_format,
                      {PyStr(TF_SAVED_MODEL), PyStr(TF_HUB)})
     THEN Confirm(K_strip_debug_ops, "q_output_path")
     ELSE Skip("q_output_path")
  /\ UNCHANGED <<fs, argv, dry_run, detected, arguments, stdout,
                 converter_calls, call, ret>>

\* main: the output_path question
AskOutputPath ==
  /\ pc = "q_output_path"
  /\ \E text \in TypedOutputPaths :
       IF validate_output_path(fs, text) # PyTrue
       THEN Reprompt
       ELSE Accept(K_output_path, PyStr(text), PyStr(expanduser(text)),
                   "generate")
  /\ UNCHANGED <<fs, argv, dry_run, detected, arguments, stdout,
                 converter_calls, call, ret>>

\* main: arguments = generate_arguments(params), and the dry run's report
GenerateArguments ==
  /\ pc = "generate"
  /\ arguments' = generate_arguments(answers)
  /\ IF Truthy(dry_run)
     THEN /\ stdout' = stdout \o <<COMMAND_GENERATED,
                                   CONVERTER_COMMAND \o Join(<<" ">>, arguments')>>
          /\ pc' = "exit"
          /\ exit_status' = [code |-> PyInt(0), raised |-> ""]
     ELSE /\ pc' = "convert"
          /\ UNCHANGED <<stdout, exit_status>>
  /\ UNCHANGED <<fs, argv, dry_run, answers, typed, detected, asked, rejected,
                 converter_calls, call, ret>>

\* main: convert(arguments).  The converter either raises or writes the
\* model into the output directory
Convert ==
  /\ pc = "convert"
  /\ converter_calls' = Append(converter_calls, arguments)
  /\ \E ok \in BOOLEAN :
       IF ok
       THEN /\ fs' = (answers[K_output_path].s :> DirNode(<<N_model_json>>))
                     @@ (PathJoin(answers[K_output_path].s, N_model_json)
                           :> LayersModelJson)
                     @@ fs
            /\ pc' = "list"
            /\ UNCHANGED exit_status
       ELSE /\ Abort("ConverterError")
            /\ UNCHANGED fs
  /\ UNCHANGED <<argv, dry_run, answers, typed, detected, asked, rejected,
                 arguments, stdout, call, ret>>

\* main: the report of os.scandir(params['output_path'])
ListOutput ==
  /\ pc = "list"
  /\ IF isdir(fs, answers[K_output_path].s)
     THEN /\ stdout' = stdout \o <<FILE_GENERATED>>
                              \o listdir(fs, answers[K_output_path].s)
          /\ pc' = "exit"
          /\ exit_status' = [code |-> PyInt(0), raised |-> ""]
     ELSE /\ Abort("FileNotFoundError")
          /\ stdout' = Append(stdout, FILE_GENERATED)
  /\ UNCHANGED <<fs, argv, dry_run, answers, typed, detected, asked, rejected,
                 arguments, converter_calls, call, ret>>

Next ==
  \/ EntryPoint
  \/ AskInputPath
  \/ Detect
  \/ AskInputFormat
  \/ AskOutputFormat
  \/ AskInputPathAgain
  \/ AskSavedModelTags
  \/ AskSignatureName
  \/ AskQuantizationBytes
  \/ AskWeightShardSizeByte
  \/ AskSplitWeightsByLayer
  \/ AskSkipOpCheck
  \/ AskStripDebugOps
  \/ AskOutputPath
  \/ GenerateArguments
  \/ Convert
  \/ ListOutput

Spec == Init /\ [][Next]_vars

-----------------------------------------------------------------------------
(* The functions of cli.py applied on their own: one call per behaviour, to *)
(* an input drawn from the sets below                                       *)

\* a key the answer set does not hold
Absent == [t |-> "absent"]

WithKey(ans, key, value) == IF value = Absent THEN ans ELSE Put(ans, key, value)

\* answer sets holding input_path and output_path, and any of the other keys
AnswerSets ==
  { WithKey(WithKey(WithKey(WithKey(WithKey(WithKey(WithKey(WithKey(WithKey(
      Put(Put(EmptyDict, K_input_path, ip), K_output_path, PyStr(P_o)),
      K_input_format, fmt), K_output_format, out[1]),
      K_weight_shard_size_byte, out[2]),
      K_saved_model_tags, sm[1]), K_signature_name, sm[2]),
      K_quantization_bytes, q),
      K_split_weights_by_layer, split), K_skip_op_check, skip),
      K_strip_debug_ops, strip) :
    ip \in {PyStr(P_sm), PyStr(URL_upper)},
    fmt \in {Absent, PyStr(TF_SAVED_MODEL), PyStr(TFJS_LAYERS_MODEL)},
    out \in {<<Absent, Absent>>,
             <<PyStr(TFJS_LAYERS_MODEL), PyStr(DefaultShardSize)>>},
    sm \in {<<Absent, Absent>>,
            <<PyStr(<<"s","e","r","v","e",",","g","p","u">>),
              PyStr(<<"p","r","e","d","i","c","t">>)>>},
    q \in {Absent, PyNone, PyInt(2)},
    split \in {Absent, PyTrue, PyFalse},
    skip \in {Absent, PyTrue, PyFalse},
    strip \in {Absent, PyTrue, PyFalse} }

\* paths handed to the path functions: what the user may type, and every
\* path of the filesystem
PathInputs == TypedInputPaths \cup TypedOutputPaths \cup DOMAIN fs

\* strings handed to quantization_type: the three choices of the question,
\* and strings that hold 1/2 and 1/4
QuantizationInputs ==
  {QUANT_NONE, QUANT_2X, QUANT_4X, <<>>,
   <<"1","/","2">>, <<"1","/","4">>, <<"1","/","4"," ","1","/","2">>}

InitFn ==
  /\ fs \in FileSystems
  /\ argv = <<PROG>>
  /\ pc = "entry"
  /\ exit_status = Running
  /\ dry_run = PyNone
  /\ answers = EmptyDict
  /\ typed = EmptyDict
  /\ detected = PyNone
  /\ asked = <<>>
  /\ rejected = 0
  /\ arguments = <<>>
  /\ stdout = <<>>
  /\ converter_calls = <<>>
  /\ call = NoCall
  /\ ret = PyNone

ProcessVars == <<fs, argv, pc, exit_status, dry_run, answers, typed, detected,
                 asked, rejected, arguments, stdout, converter_calls>>

CallQuantizationType ==
  /\ call = NoCall
  /\ \E s \in QuantizationInputs :
       /\ call' = [fn |-> "quantization_type", arg |-> s]
       /\ ret' = quantization_type(s)
  /\ UNCHANGED ProcessVars

CallDetectInputFormat ==
  /\ call = NoCall
  /\ \E path \in PathInputs :
       /\ call' = [fn |-> "detect_input_format", arg |-> path]
       /\ ret' = detect_input_format(fs, path)
  /\ UNCHANGED ProcessVars

CallValidateOutputPath ==
  /\ call = NoCall
  /\ \E path \in PathInputs :
       /\ call' = [fn |-> "validate_output_path", arg |-> path]
       /\ ret' = validate_output_path(fs, path)
  /\ UNCHANGED ProcessVars

CallGenerateArguments ==
  /\ call = NoCall
  /\ \E params \in AnswerSets :
       /\ call' = [fn |-> "generate_arguments", arg |-> params]
       /\ ret' = Return(generate_arguments(params))
  /\ UNCHANGED ProcessVars

\* what main may hand to input_formats: None, or a format
DetectionResults ==
  {PyNone} \cup {PyStr(f) : f \in {KERAS_MODEL, KERAS_SAVED_MODEL, TF_SAVED_MODEL,
                                   TF_HUB, TFJS_LAYERS_MODEL, TFJS_GRAPH_MODEL}}

\* the values of options['input_format'] the input_format question can store
SelectableInputFormats ==
  {KERAS_MODEL, KERAS_SAVED_MODEL, TF_SAVED_MODEL, TF_HUB, TFJS_LAYERS_MODEL}

CallInputFormats ==
  /\ call = NoCall
  /\ \E d \in DetectionResults :
       /\ call' = [fn |-> "input_formats", arg |-> d]
       /\ ret' = Return(input_formats(d))
  /\ UNCHANGED ProcessVars

CallFilterInputPathAgain ==
  /\ call = NoCall
  /\ \E value \in TypedInputPaths, format \in SelectableInputFormats :
       /\ call' = [fn |-> "filter_input_path_again",
                   arg |-> [value |-> value, input_format |-> format]]
       /\ ret' = Return(PyStr(filter_input_path_again(fs, value, format)))
  /\ UNCHANGED ProcessVars

NextFn ==
  \/ CallQuantizationType
  \/ CallDetectInputFormat
  \/ CallValidateOutputPath
  \/ CallGenerateArguments
  \/ CallInputFormats
  \/ CallFilterInputPathAgain

SpecFn == InitFn /\ [][NextFn]_vars

-----------------------------------------------------------------------------
(* Properties *)

\* some entry of the argument list holds `text`
Mentions(args, text) == \E i \in 1..Len(args) : Contains(args[i], text)

\* `entry` is an entry of the argument list
HasEntry(args, entry) == \E i \in 1..Len(args) : args[i] = entry

\* the part of s before its first "="
RECURSIVE BeforeEquals(_)
BeforeEquals(s) ==
  IF s = <<>> \/ s[1] = "=" THEN <<>> ELSE <<s[1]>> \o BeforeEquals(Tail(s))

\* the key a flag entry --key or --key=value is about
FlagKey(entry) == BeforeEquals(SubSeq(entry, 3, Len(entry)))

\* a generate_arguments call has returned
Generated == call.fn = "generate_arguments"

\* the entries of a generate_arguments result before the last two
Flags == SubSeq(ret.value, 1, Len(ret.value) - 2)

\* a detect_input_format call has returned or raised
Detected == call.fn = "detect_input_format"

\* C1: in a session where the user selects the 2x choice, quantization_bytes
\* holds 2 and the argument list has --quantization_bytes=2; the 4x choice
\* gives 1 and --quantization_bytes=1; "No compression" gives None and no
\* quantization_bytes flag.
C1_QuantizationChoiceBecomesFlag ==
  K_quantization_bytes \in DOMAIN typed =>
    LET choice == typed[K_quantization_bytes].s
        stored == answers[K_quantization_bytes]
        flag(n) == <<"-","-">> \o K_quantization_bytes \o <<"=", n>>
    IN /\ choice = QUANT_2X =>
            /\ stored = PyInt(2)
            /\ arguments # <<>> => HasEntry(arguments, flag("2"))
       /\ choice = QUANT_4X =>
            /\ stored = PyInt(1)
            /\ arguments # <<>> => HasEntry(arguments, flag("1"))
       /\ choice = QUANT_NONE =>
            /\ stored = PyNone
            /\ ~Mentions(arguments, K_quantization_bytes)

C3_UrlPathUnmodified ==
  (Detected /\ MatchesTfhubUrl(call.arg)) =>
    /\ ret.raised = ""
    /\ ret.format = PyStr(TF_HUB)
    /\ ret.path = call.arg

\* the session is past the input_path re-entry question
PastReentry ==
  pc \in {"q_saved_model_tags", "q_signature_name", "q_quantization_bytes",
          "q_weight_shard_size_byte", "q_split_weights_by_layer",
          "q_skip_op_check", "q_strip_debug_ops", "q_output_path",
          "generate", "convert", "list"}

\* C4: when detection gave no format, the session asks input_format and then
\* input_path again before any later question; when detection gave a format,
\* input_path is not asked again.
C4_ReentryIffNothingDetected ==
  PastReentry =>
    IF detected = PyNone
    THEN \E i \in 3..Len(asked) :
           /\ asked[i] = K_input_path
           /\ asked[1] = K_input_path
           /\ asked[2] = K_input_format
           /\ \A j \in 3..(i - 1) : asked[j] = K_output_format
    ELSE Cardinality({i \in 1..Len(asked) : asked[i] = K_input_path}) = 1

\* main was entered
SessionStarted == stdout # <<>> /\ stdout[1] = WELCOME

\* the usage error: the usage line, exit code 1, no exception, no session
UsageError ==
  /\ pc = "exit"
  /\ stdout = <<USAGE>>
  /\ exit_status = [code |-> PyInt(1), raised |-> ""]
  /\ asked = <<>>

\* C5: with no argument the process starts a converting session, with the
\* single dry-run flag a dry-run session, and with anything else it reports
\* the usage error and exits non-zero without starting a session.
C5_ArgumentVectorOutcome ==
  pc # "entry" =>
    IF Len(argv) = 1 THEN SessionStarted /\ dry_run = PyFalse
    ELSE IF argv = <<PROG, DRYRUN_FLAG>> THEN SessionStarted /\ dry_run = PyTrue
    ELSE UsageError

\* `file` is a .json file that json.load reads as a layers-model
IsLayersModelJson(file) ==
  /\ EndsWith(file, <<".","j","s","o","n">>)
  /\ isfile(fs, file)
  /\ fs[file].json_ok
  /\ fs[file].format = PyStr(<<"l","a","y","e","r","s","-","m","o","d","e","l">>)

\* C6: a .json file that is malformed or has no format field does not make
\* detect_input_format fail: the entry does not match, and the scan goes on
\* to the remaining entries of the directory.
C6_MalformedJsonDoesNotMatch ==
  Detected =>
    /\ ret.raised \notin {"JSONDecodeError", "KeyError"}
    /\ LET dir == Lower(call.arg) IN
       ( /\ isdir(fs, dir)
         /\ ~AnyEndsWith(listdir(fs, dir), <<".","p","b">>, TRUE)
         /\ \E i \in 1..Len(listdir(fs, dir)) :
              IsLayersModelJson(PathJoin(dir, Lower(listdir(fs, dir)[i]))) )
       => ret.format = PyStr(TFJS_LAYERS_MODEL)

\* C7: the list generate_arguments returns ends with input_path and then
\* output_path, and no entry before them is either path or a flag of the
\* keys input_path and output_path.
C7_PathsAreTheLastTwoEntries ==
  Generated =>
    /\ Len(ret.value) >= 2
    /\ ret.value[Len(ret.value) - 1] = call.arg[K_input_path].s
    /\ ret.value[Len(ret.value)] = call.arg[K_output_path].s
    /\ \A i \in 1..Len(Flags) :
         /\ Flags[i] \notin {call.arg[K_input_path].s, call.arg[K_output_path].s}
         /\ FlagKey(Flags[i]) \notin {K_input_path, K_output_path}

\* generate_arguments was given keys that sort before input_path, between the
\* two path keys and after output_path
C7_Witness ==
  /\ Generated
  /\ {K_input_format, K_output_format, K_skip_op_check} \subseteq DOMAIN call.arg
  /\ call.arg[K_skip_op_check] = PyTrue
  /\ Len(ret.value) >= 5

\* the flag entries are in ascending order of their keys, one per key at most
FlagsAscending ==
  \A i, j \in 1..Len(Flags) : i < j => StrLess(FlagKey(Flags[i]), FlagKey(Flags[j]))

\* exactly the entries `expected` are about `key`
EntriesOf(key) == {i \in 1..Len(Flags) : FlagKey(Flags[i]) = key}
KeyProduces(key, expected) ==
  /\ Cardinality(EntriesOf(key)) = Cardinality(expected)
  /\ \A i \in EntriesOf(key) : Flags[i] \in expected

\* the flag entries are those of the rule in which the keys of `bare` are the
\* boolean-flag keys
FlagsFollowRule(bare) ==
  /\ Len(ret.value) >= 2
  /\ FlagsAscending
  /\ \A i \in 1..Len(Flags) : FlagKey(Flags[i]) \in DOMAIN call.arg
  /\ \A key \in DOMAIN call.arg :
       LET value == call.arg[key] IN
       IF key \in {K_input_path, K_output_path} \/ value = PyNone
       THEN KeyProduces(key, {})
       ELSE IF key \in bare
       THEN IF value = PyTrue
            THEN KeyProduces(key, {<<"-","-">> \o key})
            ELSE KeyProduces(key, {})
       ELSE KeyProduces(key, {<<"-","-">> \o key \o <<"=">> \o PyToStr(value)})

C9_DirectoryWithPbIsSavedModel ==
  ( /\ Detected
    /\ isdir(fs, call.arg)
    /\ AnyEndsWith(listdir(fs, call.arg), <<".","p","b">>, FALSE) )
  => /\ ret.raised = ""
     /\ ret.format = PyStr(TF_SAVED_MODEL)

\* a validate_output_path call has returned
OutputValidated == call.fn = "validate_output_path"

\* C10: validate_output_path rejects exactly the paths that already exist on
\* the filesystem and accepts every other path.
C10_RejectsExactlyExistingPaths ==
  OutputValidated => (ret # PyTrue <=> exists(fs, expanduser(call.arg)))

\* C10 (as amended): validate_output_path rejects exactly the paths that are
\* empty or that, after home-directory expansion, already exist on the
\* filesystem, and accepts every other path.
C10_RejectsExactlyEmptyOrExistingPaths ==
  OutputValidated =>
    (ret # PyTrue <=> (call.arg = <<>> \/ exists(fs, expanduser(call.arg))))

\* validate_output_path rejected a path that exists
C10_Witness ==
  /\ OutputValidated
  /\ call.arg = P_sm
  /\ ret = PyStr(MSG_OUTPUT_EXISTS \o P_sm)

\* the last prompt has returned: the answer set is final
Completed == K_output_path \in DOMAIN answers

\* C11: in a completed session the key of a conditional question is in the
\* answer set exactly when its condition held: output_format iff input_format
\* is keras_saved_model or tfjs_layers_model; saved_model_tags and
\* signature_name iff it is tf_saved_model or keras_saved_model;
\* weight_shard_size_byte iff output_format is tfjs_layers_model;
\* split_weights_by_layer iff input_format is tfjs_layers_model; skip_op_check
\* and strip_debug_ops iff it is tf_saved_model or tf_hub.  input_path,
\* input_format, quantization_bytes and output_path are always there.
C11_KeysFollowVisibility ==
  Completed =>
    LET has(key) == key \in DOMAIN answers
        input_format == answers[K_input_format]
    IN /\ has(K_input_path) /\ has(K_input_format)
       /\ has(K_quantization_bytes) /\ has(K_output_path)
       /\ has(K_output_format) <=>
            input_format \in {PyStr(KERAS_SAVED_MODEL), PyStr(TFJS_LAYERS_MODEL)}
       /\ has(K_saved_model_tags) <=>
            input_format \in {PyStr(TF_SAVED_MODEL), PyStr(KERAS_SAVED_MODEL)}
       /\ has(K_signature_name) <=>
            input_format \in {PyStr(TF_SAVED_MODEL), PyStr(KERAS_SAVED_MODEL)}
       /\ has(K_weight_shard_size_byte) <=>
            (has(K_output_format)
               /\ answers[K_output_format] = PyStr(TFJS_LAYERS_MODEL))
       /\ has(K_split_weights_by_layer) <=>
            input_format = PyStr(TFJS_LAYERS_MODEL)
       /\ has(K_skip_op_check) <=>
            input_format \in {PyStr(TF_SAVED_MODEL), PyStr(TF_HUB)}
       /\ has(K_strip_debug_ops) <=>
            input_format \in {PyStr(TF_SAVED_MODEL), PyStr(TF_HUB)}

\* a session completed with input_format tfjs_layers_model and output_format
\* keras: output_format and split_weights_by_layer were asked,
\* weight_shard_size_byte and the saved-model questions were skipped
C11_Witness ==
  /\ Completed
  /\ answers[K_input_format] = PyStr(TFJS_LAYERS_MODEL)
  /\ answers[K_output_format] = PyStr(KERAS_MODEL)
  /\ K_split_weights_by_layer \in DOMAIN answers
  /\ K_weight_shard_size_byte \notin DOMAIN answers
  /\ K_saved_model_tags \notin DOMAIN answers

\* the 'when' of a provider-backed question agrees with its provider: when
\* the format does not apply the provider returns the empty list without
\* raising, and whenever it returns, the question is visible exactly if the
\* list is not empty
VisibleIffChoices(visible, provided) ==
  /\ ~visible => (provided.raised = "" /\ provided.choices = <<>>)
  /\ provided.raised = "" => (visible <=> provided.choices # <<>>)

\* C12: for output_format, saved_model_tags and signature_name, the question
\* is asked exactly when its choice provider returns a non-empty list for the
\* answers collected so far; a provider returns the empty list without
\* failing when the input format does not apply, and a visible question never
\* has an empty choice list.
C12_VisibleIffProviderHasChoices ==
  /\ pc = "q_output_format" =>
       VisibleIffChoices(
         value_in_list(answers, K_input_format,
                       {PyStr(KERAS_SAVED_MODEL), PyStr(TFJS_LAYERS_MODEL)}),
         [raised |-> "", choices |-> available_output_formats(answers)])
  /\ pc = "q_saved_model_tags" =>
       VisibleIffChoices(is_saved_model(answers[K_input_format]),
                         available_tags(fs, answers))
  /\ pc = "q_signature_name" =>
       VisibleIffChoices(is_saved_model(answers[K_input_format]),
                         available_signature_names(fs, answers))

\* the values of a choice list
ChoiceSet(choices) == {choices[i] : i \in 1..Len(choices)}

\* C13: available_output_formats depends on input_format alone:
\* keras_saved_model gives exactly the two choices TF.js graph model and
\* TF.js layers model, tfjs_layers_model gives exactly Keras HDF5 and TF.js
\* layers model, every other format gives the empty list.  So a session
\* whose layers-model model.json was detected and confirmed answers
\* output_format from Keras HDF5 and TF.js layers model, and a session with
\* input_format tf_saved_model is never asked output_format.
C13_OutputFormatsAreStaticLookup ==
  K_input_format \in DOMAIN answers =>
    LET input_format == answers[K_input_format]
        choices == available_output_formats(answers)
    IN /\ IF input_format = PyStr(KERAS_SAVED_MODEL)
          THEN /\ Len(choices) = 2
               /\ ChoiceSet(choices) =
                    {PyStr(TFJS_GRAPH_MODEL), PyStr(TFJS_LAYERS_MODEL)}
          ELSE IF input_format = PyStr(TFJS_LAYERS_MODEL)
          THEN /\ Len(choices) = 2
               /\ ChoiceSet(choices) =
                    {PyStr(KERAS_MODEL), PyStr(TFJS_LAYERS_MODEL)}
          ELSE choices = <<>>
       /\ ( /\ detected = PyStr(TFJS_LAYERS_MODEL)
            /\ input_format = detected
            /\ K_output_format \in DOMAIN answers )
          => answers[K_output_format]
               \in {PyStr(KERAS_MODEL), PyStr(TFJS_LAYERS_MODEL)}
       /\ input_format = PyStr(TF_SAVED_MODEL) =>
            /\ K_output_format \notin DOMAIN answers
            /\ \A i \in 1..Len(asked) : asked[i] # K_output_format

\* the model.json of /l was detected as tfjs_layers_model, the format was
\* confirmed, and Keras HDF5 was selected as the output format
C13_Witness ==
  /\ detected = PyStr(TFJS_LAYERS_MODEL)
  /\ K_output_format \in DOMAIN answers
  /\ answers[K_input_path] = PyStr(PathJoin(P_l, N_model_json))
  /\ answers[K_input_format] = PyStr(TFJS_LAYERS_MODEL)
  /\ answers[K_output_format] = PyStr(KERAS_MODEL)

\* what a dry run prints for the argument list `args`
DryRunReport(args) ==
  <<COMMAND_GENERATED, CONVERTER_COMMAND \o Join(<<" ">>, args)>>

\* the lines `report` are on stdout, one after the other
Printed(report) ==
  \E i \in 0..(Len(stdout) - Len(report)) :
    SubSeq(stdout, i + 1, i + Len(report)) = report

\* C14: a dry-run session never invokes the converter and prints the command
\* line instead; any other session invokes the converter exactly once, after
\* output_path was accepted, with the list generate_arguments returns for the
\* final answer set, and lists the output directory only after that.
C14_ConverterInvokedOnceAfterFinalAnswers ==
  /\ Len(converter_calls) <= 1
  /\ dry_run = PyTrue =>
       /\ converter_calls = <<>>
       /\ ~Printed(<<FILE_GENERATED>>)
       /\ arguments # <<>> =>
            /\ Completed
            /\ arguments = generate_arguments(answers)
            /\ Printed(DryRunReport(arguments))
  /\ dry_run # PyTrue =>
       /\ ~Printed(<<COMMAND_GENERATED>>)
       /\ (arguments # <<>> /\ pc # "convert") <=> Len(converter_calls) = 1
       /\ converter_calls # <<>> =>
            /\ Completed
            /\ converter_calls[1] = generate_arguments(answers)
       /\ Printed(<<FILE_GENERATED>>) => converter_calls # <<>>
       /\ pc = "list" => converter_calls # <<>>

\* a converting session ended after the converter was invoked and the output
\* directory was listed
C14_Witness ==
  /\ dry_run = PyFalse
  /\ pc = "exit"
  /\ exit_status.code = PyInt(0)
  /\ Len(converter_calls) = 1
  /\ Len(converter_calls[1]) > 2
  /\ Printed(<<FILE_GENERATED>>)

\* C15: when a validator rejects an answer (an empty first input path, an
\* invalid re-entered input path, an empty or existing output path) the
\* session goes on, the answer set is unchanged and the same question is
\* asked again; the session leaves a validated question only with an answer
\* its validator accepts.
C15_RejectedAnswerIsAskedAgain ==
  [][ /\ rejected' > rejected =>
           /\ pc' = pc
           /\ answers' = answers
           /\ asked' = asked
           /\ exit_status' = Running
      /\ (pc = "q_input_path" /\ pc' # pc) =>
           /\ typed'[K_input_path].s # <<>>
           /\ answers'[K_input_path].s = expanduser(typed'[K_input_path].s)
      /\ (pc = "q_input_path_again" /\ asked' # asked) =>
           validate_input_path(fs, typed'[K_input_path].s,
                               answers[K_input_format].s) = PyTrue
      /\ (pc = "q_output_path" /\ pc' # pc) =>
           LET output_path == expanduser(typed'[K_output_path].s) IN
           /\ output_path # <<>>
           /\ ~exists(fs, output_path)
           /\ answers'[K_output_path].s = output_path
    ]_vars

\* the output_path question has rejected two answers in a row and is still
\* the current question, after the first input_path question was answered
C15_Witness ==
  /\ pc = "q_output_path"
  /\ rejected = MaxRejected
  /\ K_output_path \notin DOMAIN answers
  /\ exit_status = Running

\* input_format is a saved-model format and input_path holds no saved_model.pb
\* that parses: reading the metadata fails
MetadataReadFails ==
  /\ K_input_format \in DOMAIN answers
  /\ is_saved_model(answers[K_input_format])
  /\ LET file == PathJoin(answers[K_input_path].s, SAVED_MODEL_PB) IN
     ~(isfile(fs, file) /\ fs[file].saved_model_ok)

\* C16: when reading the saved-model metadata fails, the session aborts at
\* the saved_model_tags question: no later question is asked, no argument
\* list is built and the converter is not invoked.
C16_MetadataReadFailureIsFatal ==
  MetadataReadFails =>
    /\ pc \in {"q_output_format", "q_input_path_again", "q_saved_model_tags",
               "exit"}
    /\ pc = "exit" => exit_status = [code |-> PyInt(1), raised |-> "IOError"]
    /\ DOMAIN answers \subseteq {K_input_path, K_input_format, K_output_format}
    /\ \A i \in 1..Len(asked) :
         asked[i] \in {K_input_path, K_input_format, K_output_format}
    /\ arguments = <<>>
    /\ converter_calls = <<>>

\* the session of the file /w.pb, detected as tf_saved_model, has aborted
\* with the IOError of parse_saved_model
C16_Witness ==
  /\ MetadataReadFails
  /\ answers[K_input_path] = PyStr(P_w_pb)
  /\ answers[K_input_format] = PyStr(TF_SAVED_MODEL)
  /\ pc = "exit"
  /\ exit_status.raised = "IOError"

\* the questions of main in the order of the code, the input_path re-entry
\* included
QuestionOrder ==
  <<K_input_path, K_input_format, K_output_format, K_input_path,
    K_saved_model_tags, K_signature_name, K_quantization_bytes,
    K_weight_shard_size_byte, K_split_weights_by_layer, K_skip_op_check,
    K_strip_debug_ops, K_output_path>>

\* `a` is `b` with some entries left out
RECURSIVE IsSubsequence(_, _)
IsSubsequence(a, b) ==
  IF a = <<>> THEN TRUE
  ELSE IF b = <<>> THEN FALSE
  ELSE IF a[1] = b[1] THEN IsSubsequence(Tail(a), Tail(b))
  ELSE IsSubsequence(a, Tail(b))

\* the questions asked so far follow the fixed order, and output_path is the
\* last answer of a completed session
AskedInOrder ==
  /\ IsSubsequence(asked, QuestionOrder)
  /\ Completed => asked[Len(asked)] = K_output_path

\* a step keeps every stored answer, except input_path on the steps at the
\* positions `exceptions`
AnswersKept(exceptions) ==
  /\ asked' = asked \/ \E name \in DOMAIN answers' : asked' = Append(asked, name)
  /\ \A key \in DOMAIN answers :
       /\ key \in DOMAIN answers'
       /\ answers'[key] # answers[key] =>
            (key = K_input_path /\ pc \in exceptions)

\* C17: the questions are asked in the fixed order, output_path is the last
\* accepted answer, and once an answer is accepted no later step asks the
\* question again or changes the stored value, except the input_path
\* re-entry.
C17_FixedOrderNoBacktracking ==
  []AskedInOrder /\ [][AnswersKept({"q_input_path_again"})]_vars

\* C17 (as amended): the same, with a second exception: right after the first
\* question, main replaces the stored input_path by the path
\* detect_input_format returns.
C17_FixedOrderNoBacktrackingButDetection ==
  []AskedInOrder /\ [][AnswersKept({"detect", "q_input_path_again"})]_vars

\* a completed session of at least six questions, after detection
\* replaced the directory /l typed at the first question by /l/model.json
C17_Witness ==
  /\ Completed
  /\ typed[K_input_path] = PyStr(P_l)
  /\ answers[K_input_path] = PyStr(PathJoin(P_l, N_model_json))
  /\ Len(asked) >= 6
  /\ asked[Len(asked)] = K_output_path

\* an input_formats call has returned
FormatsListed == call.fn = "input_formats"

\* the Format values of the data model
AllFormats ==
  {KERAS_MODEL, KERAS_SAVED_MODEL, TF_SAVED_MODEL, TF_HUB, TFJS_LAYERS_MODEL,
   TFJS_GRAPH_MODEL}

\* the order of the choices in the list of input_formats
FixedFormatOrder ==
  <<KERAS_MODEL, KERAS_SAVED_MODEL, TF_SAVED_MODEL, TF_HUB, TFJS_LAYERS_MODEL>>

\* the choice is shown as auto-detected
Marked(choice) == EndsWith(choice.name, <<" ","*">>)

\* the 'value' of each choice of the list, in order
ValuesOf(choices) == [i \in 1..Len(choices) |-> choices[i].value]

\* the choices are those of `formats`; when `detected_format` is one of them it is
\* the only marked entry and the first one, the others keeping the fixed
\* order; otherwise nothing is marked and the order is the fixed one
ChoicesMarkDetected(choices, formats, detected_format) ==
  LET IsNotDetected(f) == PyStr(f) # detected_format IN
  /\ {choices[i].value : i \in 1..Len(choices)} = formats
  /\ Len(choices) = Cardinality(formats)
  /\ \A i \in 1..Len(choices) :
       Marked(choices[i]) <=> PyStr(choices[i].value) = detected_format
  /\ IF \E f \in formats : PyStr(f) = detected_format
     THEN /\ PyStr(choices[1].value) = detected_format
          /\ Tail(ValuesOf(choices)) = SelectSeq(FixedFormatOrder, IsNotDetected)
     ELSE ValuesOf(choices) = FixedFormatOrder

\* C18: for every detection result input_formats returns the same fixed set
\* of choices, one for every Format value of the data model; a detected
\* format is the only marked entry and the first one, the others keep their
\* order; with nothing detected no entry is marked and the order is the
\* fixed one.
C18_FormatChoicesCoverEveryFormat ==
  FormatsListed =>
    /\ ChoicesMarkDetected(ret.value, AllFormats, call.arg)
    /\ call.arg # PyNone => \E i \in 1..Len(ret.value) : Marked(ret.value[i])

\* C18 (as amended): the fixed set is the five formats keras,
\* keras_saved_model, tf_saved_model, tf_hub and tfjs_layers_model, without
\* the TF.js graph model; a detected format among the five is the only marked
\* entry and the first one; otherwise no entry is marked and the order is
\* the fixed one.
C18_FormatChoicesAreTheFiveInputFormats ==
  FormatsListed =>
    ChoicesMarkDetected(ret.value, SelectableInputFormats, call.arg)

\* input_formats was given tf_hub and has moved its marked entry from the
\* fourth place to the first
C18_Witness ==
  /\ FormatsListed
  /\ call.arg = PyStr(TF_HUB)
  /\ ret.value[1].value = TF_HUB
  /\ Marked(ret.value[1])
  /\ ret.value[2].value = KERAS_MODEL

\* C19: the filter of the input_path re-entry question returns the expansion
\* of the entered path (the home directory expanded, a directory holding a
\* .json file replaced by the path of that file); the result comes from the
\* entered text, never from the input-format tag.
C19_ReentryFilterExpandsEnteredPath ==
  call.fn = "filter_input_path_again" =>
    LET entered == call.arg.value
        resolved == IF isdir(fs, expanduser(entered))
                    THEN FirstJsonEntry(expanduser(entered),
                                        listdir(fs, expanduser(entered)), 1)
                    ELSE expanduser(entered)
    IN /\ ret.value = PyStr(resolved)
       /\ entered # call.arg.input_format => ret.value # PyStr(call.arg.input_format)

\* C20: whenever a session reaches argument building (pc is at generate, or
\* the arguments are built and convert is next), the input_path of the final
\* answer set passes validate_input_path for the input_format chosen in that
\* session.
C20_FinalInputPathValidForChosenFormat ==
  pc \in {"generate", "convert"} =>
    validate_input_path(fs, answers[K_input_path].s,
                        answers[K_input_format].s) = PyTrue

====
